---- MODULE Spec2Model ----
(***************************************************************************)
(* Model of convert_woff2_to_ttf (src/rust/src/api/font_converter.rs): the *)
(* facade that guards the input and hands it to the WOFF2 core decoder.    *)
(* The facade is modelled step by step from the source.  The core decoder  *)
(* (woofwoof::decompress) is not part of the source tree; its stages are   *)
(* modelled from the written specification, and only its Option-valued     *)
(* return is visible to the facade.                                        *)
(***************************************************************************)
EXTENDS Integers, Sequences, FiniteSets, TLC

\* ---------------------------------------------------------------- bounds
MaxLen == 5          \* longest input enumerated byte by byte
MaxTables == 2       \* largest numTables of an enumerated container
NumCalls == 2        \* calls that may run concurrently
MaxInvocations == 2  \* cap on the decoder invocation counter

\* ------------------------------------------------------------- constants
SigLen == 4
Signature == <<119, 79, 70, 50>>          \* 0x77 0x4F 0x46 0x32, 'wOF2'
HeaderSize == 48                          \* bytes of a complete WOFF2 header
TrueTypeTag == 65536                      \* 0x00010000
OttoTag == 1330926671                     \* 'OTTO'
OtherTag == 1953658213                    \* 'true', not an accepted flavor

EmptyInput == "Empty WOFF2 data"
InvalidSignature == "Invalid WOFF2 signature"
DecodeFailed == "WOFF2 decode failed"

TruncatedInput == "TruncatedInput"
MalformedDirectory == "MalformedDirectory"
DecompressionError == "DecompressionError"
GlyfReconstructionError == "GlyfReconstructionError"
DecoderErrorKinds ==
  {TruncatedInput, MalformedDirectory, DecompressionError, GlyfReconstructionError}

\* ---------------------------------------------------------------- inputs
\* An input is its leading bytes plus a description of the container that
\* follows them.  With NoContainer the bytes are the whole input.
Bytes == {119, 79, 70, 50, 0}
TestVector == <<0, 1, 0, 0>>
NoContainer ==
  [flavor |-> 0, numTables |-> 0, dir |-> "none", data |-> "none", glyf |-> "none"]
Containers ==
  [flavor : {TrueTypeTag, OttoTag, OtherTag}, numTables : 1..MaxTables,
   dir : {"ok", "malformed", "truncated"}, data : {"ok", "corrupt"},
   glyf : {"ok", "inconsistent"}]
ByteSeqs == UNION {[1..n -> Bytes] : n \in 0..MaxLen}
SigVariants ==
  {Signature, TestVector} \cup
  {[Signature EXCEPT ![i] = b] : i \in 1..SigLen, b \in Bytes}
Inputs ==
  {[bytes |-> s, container |-> NoContainer] : s \in ByteSeqs \cup {TestVector}} \cup
  {[bytes |-> s, container |-> k] : s \in SigVariants, k \in Containers}
EmptyData == [bytes |-> <<>>, container |-> NoContainer]
SigOnly == [bytes |-> Signature, container |-> NoContainer]
GoodContainer ==
  [flavor |-> TrueTypeTag, numTables |-> MaxTables, dir |-> "ok", data |-> "ok",
   glyf |-> "ok"]
ConcInputs ==
  {EmptyData, SigOnly,
   [bytes |-> <<119, 79, 70>>, container |-> NoContainer],
   [bytes |-> TestVector, container |-> NoContainer],
   [bytes |-> TestVector, container |-> GoodContainer],
   [bytes |-> Signature, container |-> GoodContainer],
   [bytes |-> Signature, container |-> [GoodContainer EXCEPT !.flavor = OttoTag,
                                                             !.numTables = 1]],
   [bytes |-> Signature, container |-> [GoodContainer EXCEPT !.data = "corrupt"]],
   [bytes |-> Signature, container |-> [GoodContainer EXCEPT !.dir = "malformed"]]}

\* --------------------------------------------------------------- results
Ok(b) == [tag |-> "Ok", bytes |-> b]
Err(e) == [tag |-> "Err", err |-> e]
Panic == [tag |-> "Panic"]
Pending == [tag |-> "Pending"]
Some(b) == [some |-> TRUE, bytes |-> b]
None == [some |-> FALSE, bytes |-> <<>>]

Calls == 1..NumCalls

VARIABLES input, pc, idx, reads, result, invocations, decArg, stage, decErr, decOut
vars == <<input, pc, idx, reads, result, invocations, decArg, stage, decErr, decOut>>

\* ------------------------------------------------------- facade helpers
InputLen(d) ==
  Len(d.bytes) + (IF d.container = NoContainer THEN 0 ELSE HeaderSize - SigLen)
InputByte(d, i) == d.bytes[i + 1]

IsEmptyNever(d) == FALSE
IsEmpty(d) == InputLen(d) = 0

TooShortNever(d) == FALSE
TooShortOffByOne(d) == InputLen(d) <= SigLen
TooShort(d) == InputLen(d) < SigLen

ByteMismatchSkipLast(d, i) == i < SigLen - 1 /\ InputByte(d, i) # Signature[i + 1]
ByteMismatch(d, i) == InputByte(d, i) # Signature[i + 1]

DecoderArgStripped(d) ==
  [d EXCEPT !.bytes = SubSeq(d.bytes, SigLen + 1, Len(d.bytes))]
DecoderArg(d) == d

OkOrElseWrongMessage(opt) ==
  IF opt.some THEN Ok(opt.bytes) ELSE Err(InvalidSignature)
OkOrElseDefault(opt) == IF opt.some THEN Ok(opt.bytes) ELSE Ok(<<>>)
OkOrElseTruncated(opt) ==
  IF opt.some THEN Ok(SubSeq(opt.bytes, 2, Len(opt.bytes))) ELSE Err(DecodeFailed)
OkOrElse(opt) == IF opt.some THEN Ok(opt.bytes) ELSE Err(DecodeFailed)

PcAfterDecodeRetry(opt) == IF opt.some THEN "done" ELSE "decode"
PcAfterDecode(opt) == "done"

CallDataShared(c) == input[1]
CallData(c) == input[c]

\* ------------------------------------------------- core decoder (stages)
Stages ==
  <<"Start", "HeaderParsed", "TablesParsed", "TablesDecompressed",
    "TablesReconstructed", "Assembled">>
StageIndex(s) == CHOOSE i \in 1..Len(Stages) : Stages[i] = s
NextStage(s) == Stages[StageIndex(s) + 1]

\* The error with which the step leaving stage s fails on input a, "" if it
\* succeeds.
StageError(s, a) ==
  CASE s = "Start" ->
         IF InputLen(a) < HeaderSize \/ a.container = NoContainer
         THEN TruncatedInput ELSE ""
    [] s = "HeaderParsed" ->
         IF a.container.dir = "malformed" THEN MalformedDirectory
         ELSE IF a.container.dir = "truncated" THEN TruncatedInput ELSE ""
    [] s = "TablesParsed" ->
         IF a.container.data = "corrupt" THEN DecompressionError ELSE ""
    [] s = "TablesDecompressed" ->
         IF a.container.glyf = "inconsistent" THEN GlyfReconstructionError ELSE ""
    [] OTHER -> ""

Log2Floor(n) == CHOOSE e \in 0..16 : 2^e <= n /\ n < 2^(e + 1)
Assemble(a) ==
  LET n == a.container.numTables
      e == Log2Floor(n)
  IN <<a.container.flavor, n, (2^e) * 16, e, n * 16 - (2^e) * 16>>

Decode(a) ==
  IF \E i \in 1..(Len(Stages) - 1) : StageError(Stages[i], a) # ""
  THEN None ELSE Some(Assemble(a))

DecReturn(c) == IF stage[c] = "Assembled" THEN Some(decOut[c]) ELSE None

\* The result of one call run alone on input d.
ConvertAlone(d) ==
  IF InputLen(d) = 0 THEN Err(EmptyInput)
  ELSE IF InputLen(d) < SigLen
          \/ \E i \in 0..(SigLen - 1) : d.bytes[i + 1] # Signature[i + 1]
       THEN Err(InvalidSignature)
       ELSE LET r == Decode(d) IN IF r.some THEN Ok(r.bytes) ELSE Err(DecodeFailed)

\* ------------------------------------------------------------------ Init
InitCall(active, ins) ==
  /\ \E f \in [active -> ins] :
       input = [c \in Calls |-> IF c \in active THEN f[c] ELSE EmptyData]
  /\ pc = [c \in Calls |-> IF c \in active THEN "check_empty" ELSE "idle"]
  /\ idx = [c \in Calls |-> 0]
  /\ reads = [c \in Calls |-> {}]
  /\ result = [c \in Calls |-> Pending]
  /\ invocations = [c \in Calls |-> 0]
  /\ decArg = [c \in Calls |-> EmptyData]
  /\ stage = [c \in Calls |-> "Idle"]
  /\ decErr = [c \in Calls |-> ""]
  /\ decOut = [c \in Calls |-> <<>>]

Init == InitCall({1}, Inputs)
InitConc == InitCall(Calls, ConcInputs)

\* --------------------------------------------------------------- actions
Finish(c, r) ==
  /\ result' = [result EXCEPT ![c] = r]
  /\ pc' = [pc EXCEPT ![c] = "done"]

\* if woff2_data.is_empty() { return Err(..) }
CheckEmpty(c) ==
  /\ pc[c] = "check_empty"
  /\ IF IsEmpty(CallData(c))
     THEN Finish(c, Err(EmptyInput))
     ELSE pc' = [pc EXCEPT ![c] = "check_len"] /\ UNCHANGED result
  /\ UNCHANGED <<input, idx, reads, invocations, decArg, stage, decErr, decOut>>

\* woff2_data.len() < 4 ||
CheckLen(c) ==
  /\ pc[c] = "check_len"
  /\ IF TooShort(CallData(c))
     THEN Finish(c, Err(InvalidSignature))
     ELSE pc' = [pc EXCEPT ![c] = "check_sig"] /\ UNCHANGED result
  /\ UNCHANGED <<input, idx, reads, invocations, decArg, stage, decErr, decOut>>

\* woff2_data[i] != sig[i] ||   (an index past the end panics)
CheckSigByte(c) ==
  /\ pc[c] = "check_sig"
  /\ reads' = [reads EXCEPT ![c] = @ \cup {idx[c]}]
  /\ IF idx[c] >= InputLen(CallData(c))
     THEN Finish(c, Panic) /\ UNCHANGED idx
     ELSE IF ByteMismatch(CallData(c), idx[c])
          THEN Finish(c, Err(InvalidSignature)) /\ UNCHANGED idx
          ELSE IF idx[c] = SigLen - 1
               THEN pc' = [pc EXCEPT ![c] = "decode"] /\ UNCHANGED <<idx, result>>
               ELSE idx' = [idx EXCEPT ![c] = @ + 1] /\ UNCHANGED <<pc, result>>
  /\ UNCHANGED <<input, invocations, decArg, stage, decErr, decOut>>

\* woofwoof::decompress(&woff2_data)
InvokeDecoder(c) ==
  /\ pc[c] = "decode"
  /\ invocations[c] < MaxInvocations
  /\ invocations' = [invocations EXCEPT ![c] = @ + 1]
  /\ decArg' = [decArg EXCEPT ![c] = DecoderArg(CallData(c))]
  /\ stage' = [stage EXCEPT ![c] = "Start"]
  /\ decErr' = [decErr EXCEPT ![c] = ""]
  /\ decOut' = [decOut EXCEPT ![c] = <<>>]
  /\ pc' = [pc EXCEPT ![c] = "decoding"]
  /\ UNCHANGED <<input, idx, reads, result>>

\* One decoder stage: parse header, parse directory, decompress, reconstruct.
DecoderStep(c) ==
  /\ pc[c] = "decoding"
  /\ stage[c] \in {"Start", "HeaderParsed", "TablesParsed", "TablesDecompressed"}
  /\ LET e == StageError(stage[c], decArg[c])
     IN IF e # ""
        THEN /\ stage' = [stage EXCEPT ![c] = "Failed"]
             /\ decErr' = [decErr EXCEPT ![c] = e]
        ELSE /\ stage' = [stage EXCEPT ![c] = NextStage(stage[c])]
             /\ UNCHANGED decErr
  /\ UNCHANGED <<input, pc, idx, reads, result, invocations, decArg, decOut>>

\* The SFNT assembler emits the output buffer.
DecoderAssemble(c) ==
  /\ pc[c] = "decoding"
  /\ stage[c] = "TablesReconstructed"
  /\ stage' = [stage EXCEPT ![c] = "Assembled"]
  /\ decOut' = [decOut EXCEPT ![c] = Assemble(decArg[c])]
  /\ UNCHANGED <<input, pc, idx, reads, result, invocations, decArg, decErr>>

\* .ok_or_else(|| anyhow!("WOFF2 decode failed"))
MapResult(c) ==
  /\ pc[c] = "decoding"
  /\ stage[c] \in {"Assembled", "Failed"}
  /\ result' = [result EXCEPT ![c] = OkOrElse(DecReturn(c))]
  /\ pc' = [pc EXCEPT ![c] = PcAfterDecode(DecReturn(c))]
  /\ UNCHANGED <<input, idx, reads, invocations, decArg, stage, decErr, decOut>>

Next ==
  \/ \E c \in Calls : CheckEmpty(c)
  \/ \E c \in Calls : CheckLen(c)
  \/ \E c \in Calls : CheckSigByte(c)
  \/ \E c \in Calls : InvokeDecoder(c)
  \/ \E c \in Calls : DecoderStep(c)
  \/ \E c \in Calls : DecoderAssemble(c)
  \/ \E c \in Calls : MapResult(c)

Spec == Init /\ [][Next]_vars
SpecConc == InitConc /\ [][Next]_vars

\* ---------------------------------------------------------------- claims
Done(c) == pc[c] = "done"
SigMatches(d) ==
  InputLen(d) >= SigLen /\ \A i \in 1..SigLen : d.bytes[i] = Signature[i]
ValidTags == {TrueTypeTag, OttoTag}
ValidWoff2(d) ==
  /\ d.bytes = Signature
  /\ d.container \in Containers
  /\ d.container.flavor \in ValidTags
  /\ d.container.dir = "ok" /\ d.container.data = "ok" /\ d.container.glyf = "ok"

\* C1: the empty input fails with EmptyInput and nothing else; the emptiness
\* check comes before the signature check (no byte is compared) and the core
\* decoder is not invoked.
C1_EmptyInputRejected ==
  \A c \in Calls :
    (Done(c) /\ InputLen(input[c]) = 0) =>
      /\ result[c] = Err(EmptyInput)
      /\ reads[c] = {}
      /\ invocations[c] = 0 /\ stage[c] = "Idle"
C1_Witness ==
  \E c \in Calls : Done(c) /\ input[c] = EmptyData /\ result[c] = Err(EmptyInput)

\* C2: every input of length >= 4 whose first 4 bytes differ from the
\* signature in at least one position fails with InvalidSignature, whatever
\* follows, and the core decoder is not invoked.
C2_BadSignatureRejected ==
  \A c \in Calls :
    (/\ Done(c)
     /\ InputLen(input[c]) >= SigLen
     /\ \E i \in 1..SigLen : input[c].bytes[i] # Signature[i]) =>
      /\ result[c] = Err(InvalidSignature)
      /\ invocations[c] = 0 /\ stage[c] = "Idle"
C2_Witness ==
  \E c \in Calls :
    /\ Done(c)
    /\ input[c] = [bytes |-> <<119, 79, 70, 0>>, container |-> GoodContainer]
    /\ result[c] = Err(InvalidSignature)

\* C3: an input shorter than 4 bytes fails with EmptyInput or
\* InvalidSignature and never panics; no byte index is read unless it lies
\* within the input.
C3_ShortInputNoPanic ==
  \A c \in Calls :
    /\ \A i \in reads[c] : i < InputLen(input[c])
    /\ InputLen(input[c]) < SigLen =>
         /\ result[c] # Panic
         /\ reads[c] = {}
         /\ Done(c) => result[c] \in {Err(EmptyInput), Err(InvalidSignature)}
C3_Witness ==
  \E c \in Calls :
    /\ Done(c)
    /\ input[c] = [bytes |-> <<119, 79, 70>>, container |-> NoContainer]
    /\ result[c] = Err(InvalidSignature)

C6_AllOrNothing ==
  \A c \in Calls :
    /\ ~Done(c) => result[c] = Pending
    /\ Done(c) =>
         /\ result[c].tag \in {"Ok", "Err"}
         /\ result[c].tag = "Ok" <=> (invocations[c] >= 1 /\ stage[c] = "Assembled")
         /\ result[c].tag = "Ok" =>
              result[c].bytes = decOut[c] /\ result[c].bytes = Assemble(input[c])
         /\ result[c].tag = "Err" =>
              /\ DOMAIN result[c] = {"tag", "err"}
              /\ result[c].err \in {EmptyInput, InvalidSignature, DecodeFailed}
C6_Witness ==
  \E c \in Calls :
    Done(c) /\ result[c].tag = "Ok" /\ Len(result[c].bytes) > 0
      /\ stage[c] = "Assembled"

CallState(c) ==
  <<input[c], pc[c], idx[c], reads[c], result[c], invocations[c], decArg[c],
    stage[c], decErr[c], decOut[c]>>
C8_CallsIsolated ==
  /\ [](\A c \in Calls : Done(c) => result[c] = ConvertAlone(input[c]))
  /\ [][\E c \in Calls : \A d \in Calls \ {c} : CallState(d)' = CallState(d)]_vars
C8_Witness ==
  /\ \A c \in Calls : Done(c)
  /\ result[1].tag = "Ok"
  /\ result[2] = Err(DecodeFailed)
  /\ input[1] # input[2]

\* C9: the decode is the linear pipeline Start -> HeaderParsed ->
\* TablesParsed -> TablesDecompressed -> TablesReconstructed -> Assembled |
\* Failed: a stage's only successors are the next stage or Failed, and
\* Assembled and Failed are terminal.
C9_LinearPipeline ==
  [][\A c \in Calls :
       stage'[c] # stage[c] =>
         \/ stage[c] = "Idle" /\ stage'[c] = "Start"
         \/ /\ stage[c] \notin {"Idle", "Assembled", "Failed"}
            /\ stage'[c] \in {NextStage(stage[c]), "Failed"}]_vars
C9_Witness ==
  \E c \in Calls :
    Done(c) /\ stage[c] = "Assembled" /\ decErr[c] = "" /\ invocations[c] = 1

\* C10: within one call the decoder is invoked at most once, exactly when
\* the input has length >= 4 and starts with the signature, and it receives
\* the caller's bytes unchanged.
C10_DecoderInvokedOnceIffGuardsPass ==
  \A c \in Calls :
    /\ invocations[c] <= 1
    /\ invocations[c] = 1 => (SigMatches(input[c]) /\ decArg[c] = input[c])
    /\ Done(c) => (invocations[c] = 1 <=> SigMatches(input[c]))
C10_Witness ==
  \E c \in Calls :
    /\ Done(c) /\ invocations[c] = 1 /\ stage[c] = "Failed"
    /\ input[c].container # NoContainer /\ decArg[c] = input[c]
====
